---- MODULE Spec2Model ----
(***************************************************************************)
(* Revenue-movement tagging of src/app.py: the classifier                  *)
(* _apply_tagging_conditions, the reconciler _tag_final_cust_prod_status   *)
(* and the pipeline _tag_customer_status (aggregate, shift, classify,      *)
(* merge back, reconcile).  A data frame is a sequence of rows, a row is a *)
(* record keyed by column name.                                            *)
(***************************************************************************)
EXTENDS Integers, Sequences, FiniteSets, TLC

VARIABLES data, cust_rev_by_yr, custprod_rev_by_yr, tagged, out, pc, arg, ret

vars == <<data, cust_rev_by_yr, custprod_rev_by_yr, tagged, out, pc, arg, ret>>

(***************************************************************************)
(* Bounds of the input space.                                              *)
(***************************************************************************)
MaxRows == 3
MaxNeg == 2
MaxPos == 1
NumYears == 3

start_year == 2018

Customers == {"A", "B"}
Products == {"P1", "P2", "Credit Notes"}
Metrics == {"ARR", "Revenue"}
Years == start_year .. (start_year + NumYears - 1)
Values == (0 - MaxNeg) .. MaxPos

(***************************************************************************)
(* pandas / numpy primitives                                               *)
(***************************************************************************)

\* A missing cell of a string column (NaN in an object column).
NullLabel == "NaN"

\* A float cell: NaN or a number.
NaN == [na |-> TRUE, v |-> 0]
Num(x) == [na |-> FALSE, v |-> x]

\* str.lower() on the strings that occur; a missing cell stays missing.
Lower(s) ==
  CASE s = "Credit Notes" -> "credit notes"
    [] s = "New" -> "new"
    [] s = "Lost" -> "lost"
    [] s = "Recurring" -> "recurring"
    [] s = "Upsell" -> "upsell"
    [] s = "Downsell" -> "downsell"
    [] s = "Reactivated" -> "reactivated"
    [] s = "Deactivated" -> "deactivated"
    [] s = "N/A" -> "n/a"
    [] s = "ARR" -> "arr"
    [] s = "Revenue" -> "revenue"
    [] s = "P1" -> "p1"
    [] s = "P2" -> "p2"
    [] s = "A" -> "a"
    [] s = "B" -> "b"
    [] OTHER -> s

\* Elementwise == of a string column with a literal: a missing cell equals nothing.
StrEq(s, lit) == s # NullLabel /\ s = lit

\* Series.isin on a string column.
IsIn(s, lits) == s # NullLabel /\ s \in lits

\* Comparisons of a number with a float cell: any comparison with NaN is False.
GtNullAsZero(x, p) == x > p.v

Gt(x, p) == ~p.na /\ x > p.v
Lt(x, p) == ~p.na /\ x < p.v
Eq(x, p) == ~p.na /\ x = p.v
PGe0(p) == ~p.na /\ p.v >= 0
PGt0(p) == ~p.na /\ p.v > 0
PLt0(p) == ~p.na /\ p.v < 0
IsNa(p) == p.na

RECURSIVE NpSelectNoDefault(_, _, _)
NpSelectNoDefault(conditions, choices, default) ==
  IF conditions = <<>> THEN NullLabel
  ELSE IF Head(conditions) THEN Head(choices)
  ELSE NpSelectNoDefault(Tail(conditions), Tail(choices), default)

\* np.select(conditions, choices, default): the choice of the first true condition.
RECURSIVE NpSelect(_, _, _)
NpSelect(conditions, choices, default) ==
  IF conditions = <<>> THEN default
  ELSE IF Head(conditions) THEN Head(choices)
  ELSE NpSelect(Tail(conditions), Tail(choices), default)

\* Sort order of the key cells (strings sort lexicographically, years numerically).
Ord(x) ==
  CASE x = "ARR" -> 1
    [] x = "Revenue" -> 2
    [] x = "A" -> 1
    [] x = "B" -> 2
    [] x = "Credit Notes" -> 1
    [] x = "P1" -> 2
    [] x = "P2" -> 3

RECURSIVE LexLess(_, _)
LexLess(a, b) ==
  IF a = <<>> THEN FALSE
  ELSE IF Head(a) # Head(b) THEN Head(a) < Head(b)
  ELSE LexLess(Tail(a), Tail(b))

KeyOf(r, by) == [i \in DOMAIN by |-> IF by[i] = "year" THEN r.year ELSE Ord(r[by[i]])]

\* Stable insertion of one row into a frame sorted by the columns `by`.
RECURSIVE InsertSorted(_, _, _)
InsertSorted(df, r, by) ==
  IF df = <<>> THEN <<r>>
  ELSE IF LexLess(KeyOf(r, by), KeyOf(Head(df), by)) THEN <<r>> \o df
  ELSE <<Head(df)>> \o InsertSorted(Tail(df), r, by)

\* DataFrame.sort_values(by).reset_index(drop=True)
RECURSIVE SortValues(_, _)
SortValues(df, by) ==
  IF df = <<>> THEN <<>>
  ELSE InsertSorted(SortValues(SubSeq(df, 1, Len(df) - 1), by), df[Len(df)], by)

SameKey(r, s, by) == \A i \in DOMAIN by : r[by[i]] = s[by[i]]

RECURSIVE SumWhere(_, _, _)
SumWhere(df, k, by) ==
  IF df = <<>> THEN 0
  ELSE (IF SameKey(Head(df), k, by) THEN Head(df).value ELSE 0) + SumWhere(Tail(df), k, by)

Cols(by) == {by[i] : i \in DOMAIN by}

\* One row per distinct key, first occurrences in frame order.
RECURSIVE FirstOfKeys(_, _)
FirstOfKeys(df, by) ==
  IF df = <<>> THEN <<>>
  ELSE LET rest == FirstOfKeys(SubSeq(df, 1, Len(df) - 1), by)
           r == df[Len(df)]
       IN IF \E i \in DOMAIN rest : SameKey(rest[i], r, by) THEN rest
          ELSE Append(rest, r)

\* df.groupby(by)['value'].sum().reset_index(): one row per key, keys sorted.
SumPerKey(firsts, df, by) ==
  [i \in DOMAIN firsts |->
     [c \in Cols(by) \cup {"value"} |->
        IF c = "value" THEN SumWhere(df, firsts[i], by) ELSE firsts[i][c]]]

GroupBySum(df, by) == SumPerKey(SortValues(FirstOfKeys(df, by), by), df, by)

PriorYrValueAnyKey(t, i, keycols) ==
  IF i > 1 THEN Num(t[i - 1].value) ELSE NaN

\* value.shift(1).where(<key columns equal those of the row above>, None)
PriorYrValue(t, i, keycols) ==
  IF i > 1 /\ SameKey(t[i], t[i - 1], keycols) THEN Num(t[i - 1].value) ELSE NaN

WithPrior(t, keycols) ==
  [i \in DOMAIN t |-> t[i] @@ ("prior_yr_value" :> PriorYrValue(t, i, keycols))]

RECURSIVE MergeInner(_, _, _, _)
MergeInner(left, right, on, col) ==
  IF left = <<>> THEN <<>>
  ELSE LET l == Head(left)
           hits == SelectSeq(right, LAMBDA r : SameKey(l, r, on))
       IN [j \in DOMAIN hits |-> l @@ (col :> hits[j][col])]
          \o MergeInner(Tail(left), right, on, col)

\* left.merge(right[on + [col]], on=on, how='left')
RECURSIVE Merge(_, _, _, _)
Merge(left, right, on, col) ==
  IF left = <<>> THEN <<>>
  ELSE LET l == Head(left)
           hits == SelectSeq(right, LAMBDA r : SameKey(l, r, on))
           rows == IF hits = <<>> THEN <<l @@ (col :> NullLabel)>>
                   ELSE [j \in DOMAIN hits |-> l @@ (col :> hits[j][col])]
       IN rows \o Merge(Tail(left), right, on, col)

DropColumn(df, col) ==
  [i \in DOMAIN df |-> [c \in (DOMAIN df[i]) \ {col} |-> df[i][c]]]

(***************************************************************************)
(* _apply_tagging_conditions                                               *)
(***************************************************************************)
TagConditions(hasProduct, product, value, prior) ==
  (IF hasProduct THEN <<StrEq(Lower(product), "credit notes")>> ELSE <<>>) \o
  << value >= 0 /\ PGe0(prior) /\ Eq(value, prior),
     Gt(value, prior),
     Lt(value, prior),
     value = 0 /\ PGt0(prior),
     value > 0 /\ IsNa(prior),
     value < 0 \/ PLt0(prior) >>

TagChoices(hasProduct) ==
  (IF hasProduct THEN <<"Credit Notes">> ELSE <<>>) \o
  <<"Recurring", "Upsell", "Downsell", "Lost", "New", "Credit Notes">>

\* The Lost rule tried before every other rule.
TagRowLostFirst(hasProduct, product, value, prior) ==
  NpSelect(<<value = 0 /\ PGt0(prior)>> \o TagConditions(hasProduct, product, value, prior),
           <<"Lost">> \o TagChoices(hasProduct), "N/A")

TagRow(hasProduct, product, value, prior) ==
  NpSelect(TagConditions(hasProduct, product, value, prior), TagChoices(hasProduct), "N/A")

apply_tagging_conditions(t, output_status_field_name) ==
  [i \in DOMAIN t |->
     t[i] @@ (output_status_field_name :>
       TagRow("product" \in DOMAIN t[i],
              IF "product" \in DOMAIN t[i] THEN t[i].product ELSE NullLabel,
              t[i].value, t[i].prior_yr_value))]

(***************************************************************************)
(* _tag_final_cust_prod_status                                             *)
(***************************************************************************)

\* bool & str cell: the string is cast to bool (missing -> False, non-empty -> True).
BoolAndStr(b, s) == b /\ s # NullLabel /\ s # ""

\* bool cell == string literal: a bool never equals a string.
BoolEqStr(b, lit) == FALSE

FinalConditions(c, p) ==
  << StrEq(p, "credit notes"),
     StrEq(c, "new"),
     StrEq(c, "reactivated"),
     StrEq(c, "deactivated"),
     StrEq(c, "lost"),
     IsIn(c, {"recurring", "upsell", "downsell"}) /\ StrEq(p, "new"),
     IsIn(c, {"recurring", "upsell", "downsell"}) /\ StrEq(p, "lost"),
     StrEq(p, "upsell"),
     StrEq(p, "downsell"),
     StrEq(p, "recurring"),
     BoolEqStr(BoolAndStr(StrEq(c, "credit notes"), p), "new"),
     BoolEqStr(BoolAndStr(StrEq(c, "credit notes"), p), "lost") >>

FinalChoices ==
  <<"Credit Notes", "New", "Reactivated", "Deactivated", "Lost", "xSell", "xLoss",
    "Upsell", "Downsell", "Recurring", "xSell", "xLoss">>

\* The credit-notes rule tried after the customer-level rules.
FinalRowCustomerFirst(cust, prod) ==
  LET cs == FinalConditions(Lower(cust), Lower(prod))
  IN NpSelect(SubSeq(cs, 2, 5) \o <<cs[1]>> \o SubSeq(cs, 6, 12),
              SubSeq(FinalChoices, 2, 5) \o <<FinalChoices[1]>> \o SubSeq(FinalChoices, 6, 12),
              "N/A")

\* The choices of the product-level upsell and downsell rules exchanged.
FinalRowChoicesExchanged(cust, prod) ==
  NpSelect(FinalConditions(Lower(cust), Lower(prod)),
           SubSeq(FinalChoices, 1, 7) \o <<"Downsell", "Upsell">> \o SubSeq(FinalChoices, 10, 12),
           "N/A")

FinalRow(cust, prod) ==
  NpSelect(FinalConditions(Lower(cust), Lower(prod)), FinalChoices, "N/A")

tag_final_cust_prod_status(df) ==
  [i \in DOMAIN df |->
     df[i] @@ ("custprod_status_annual" :>
       FinalRow(df[i].cust_status_annual, df[i].custprod_status_annual_temp))]

(***************************************************************************)
(* _tag_customer_status                                                    *)
(***************************************************************************)
RevenueDf(df) == SelectSeq(df, LAMBDA r : StrEq(Lower(r.metric), "arr"))

CustRevByYr(df) ==
  LET cust_rev_df == SortValues(RevenueDf(df), <<"customer", "product", "year">>)
      grouped == GroupBySum(cust_rev_df, <<"customer", "year">>)
      sorted == SortValues(grouped, <<"customer", "year">>)
  IN apply_tagging_conditions(WithPrior(sorted, <<"customer">>), "cust_status_annual")

CustProdRevByYr(df) ==
  LET grouped == GroupBySum(RevenueDf(df), <<"customer", "product", "year">>)
      sorted == SortValues(grouped, <<"customer", "product", "year">>)
  IN apply_tagging_conditions(WithPrior(sorted, <<"product", "customer">>),
                              "custprod_status_annual_temp")

Tagged(df, crby, cprby) ==
  LET m1 == Merge(df, crby, <<"customer", "year">>, "cust_status_annual")
      m2 == Merge(m1, cprby, <<"customer", "product", "year">>,
                  "custprod_status_annual_temp")
  IN tag_final_cust_prod_status(m2)

(***************************************************************************)
(* The pipeline as a state machine: facts are loaded, then tagged.         *)
(* main() hands _tag_customer_status the frame grouped by                  *)
(* (metric, customer, product, year), hence in that order; the model keeps *)
(* that order and also admits repeated keys, so that the sums of both      *)
(* grains are exercised.  The value of a non-ARR row is never read, so     *)
(* such rows carry a single value.                                         *)
(***************************************************************************)
group_by_cols == <<"metric", "customer", "product", "year">>

Facts == {r \in [metric : Metrics, customer : Customers, product : Products,
                 year : Years, value : Values] :
            StrEq(Lower(r.metric), "arr") \/ r.value = MaxPos}

NoArg == [kind |-> "none"]

Init ==
  /\ data = <<>>
  /\ cust_rev_by_yr = <<>>
  /\ custprod_rev_by_yr = <<>>
  /\ tagged = <<>>
  /\ out = <<>>
  /\ pc = "load"
  /\ arg = NoArg
  /\ ret = NullLabel

AddFact ==
  /\ pc = "load"
  /\ Len(data) < MaxRows
  /\ \E r \in Facts :
       /\ IF data = <<>> THEN TRUE
          ELSE ~LexLess(KeyOf(r, group_by_cols), KeyOf(data[Len(data)], group_by_cols))
       /\ data' = Append(data, r)
  /\ UNCHANGED <<cust_rev_by_yr, custprod_rev_by_yr, tagged, out, pc, arg, ret>>

TagCustomerStatus ==
  /\ pc = "load"
  /\ cust_rev_by_yr' = CustRevByYr(data)
  /\ custprod_rev_by_yr' = CustProdRevByYr(data)
  /\ tagged' = Tagged(data, cust_rev_by_yr', custprod_rev_by_yr')
  /\ out' = DropColumn(tagged', "custprod_status_annual_temp")
  /\ pc' = "done"
  /\ UNCHANGED <<data, arg, ret>>

Next == AddFact \/ TagCustomerStatus

Spec == Init /\ [][Next]_vars

(***************************************************************************)
(* _apply_tagging_conditions alone, on every row of the bounded input      *)
(* space: with or without a product column, prior NaN or a number.         *)
(***************************************************************************)
ProductNames == Products \cup {"credit notes"}

Priors == {NaN} \cup {Num(x) : x \in Values}

ClassifyArgs ==
  [kind : {"classify"}, hasProduct : {TRUE}, product : ProductNames,
   value : Values, prior : Priors]
  \cup
  [kind : {"classify"}, hasProduct : {FALSE}, product : {NullLabel},
   value : Values, prior : Priors]

InitClassify ==
  /\ data = <<>>
  /\ cust_rev_by_yr = <<>>
  /\ custprod_rev_by_yr = <<>>
  /\ tagged = <<>>
  /\ out = <<>>
  /\ pc = "input"
  /\ arg \in ClassifyArgs
  /\ ret = NullLabel

ApplyTaggingConditions ==
  /\ pc = "input"
  /\ arg.kind = "classify"
  /\ ret' = TagRow(arg.hasProduct, arg.product, arg.value, arg.prior)
  /\ pc' = "done"
  /\ UNCHANGED <<data, cust_rev_by_yr, custprod_rev_by_yr, tagged, out, arg>>

NextClassify == ApplyTaggingConditions

SpecClassify == InitClassify /\ [][NextClassify]_vars

(***************************************************************************)
(* _tag_final_cust_prod_status alone, on every pair of labels (a label is  *)
(* missing where the left merge found no aggregate).                       *)
(***************************************************************************)
CustLabels ==
  {"New", "Reactivated", "Deactivated", "Lost", "Recurring", "Upsell", "Downsell",
   "Credit Notes", "N/A"}

ProdLabels == {"New", "Lost", "Recurring", "Upsell", "Downsell", "Credit Notes", "N/A"}

FinalLabels ==
  {"New", "Reactivated", "Deactivated", "Lost", "Recurring", "Upsell", "Downsell",
   "xSell", "xLoss", "Credit Notes", "N/A"}

ReconcileArgs ==
  [kind : {"reconcile"}, cust : CustLabels \cup {NullLabel},
   prod : ProdLabels \cup {NullLabel}]

InitReconcile ==
  /\ data = <<>>
  /\ cust_rev_by_yr = <<>>
  /\ custprod_rev_by_yr = <<>>
  /\ tagged = <<>>
  /\ out = <<>>
  /\ pc = "input"
  /\ arg \in ReconcileArgs
  /\ ret = NullLabel

TagFinalCustProdStatus ==
  /\ pc = "input"
  /\ arg.kind = "reconcile"
  /\ ret' = FinalRow(arg.cust, arg.prod)
  /\ pc' = "done"
  /\ UNCHANGED <<data, cust_rev_by_yr, custprod_rev_by_yr, tagged, out, arg>>

NextReconcile == TagFinalCustProdStatus

SpecReconcile == InitReconcile /\ [][NextReconcile]_vars

(***************************************************************************)
(* What the claims speak of, stated over the loaded facts.                 *)
(***************************************************************************)
ArrIdx == {i \in DOMAIN data : Lower(data[i].metric) = "arr"}

RECURSIVE SumIdx(_)
SumIdx(S) ==
  IF S = {} THEN 0
  ELSE LET i == CHOOSE j \in S : TRUE IN data[i].value + SumIdx(S \ {i})

MaxOf(S) == CHOOSE y \in S : \A z \in S : z <= y

CustIdx(c, y) == {i \in ArrIdx : data[i].customer = c /\ data[i].year = y}
ProdIdx(c, p, y) == {i \in CustIdx(c, y) : data[i].product = p}

CustObserved(c, y) == CustIdx(c, y) # {}
ProdObserved(c, p, y) == ProdIdx(c, p, y) # {}

CustEarlier(c, y) == {z \in Years : z < y /\ CustObserved(c, z)}
ProdEarlier(c, p, y) == {z \in Years : z < y /\ ProdObserved(c, p, z)}

ExpectedCustPrior(c, y) ==
  IF CustEarlier(c, y) = {} THEN NaN
  ELSE Num(SumIdx(CustIdx(c, MaxOf(CustEarlier(c, y)))))

ExpectedProdPrior(c, p, y) ==
  IF ProdEarlier(c, p, y) = {} THEN NaN
  ELSE Num(SumIdx(ProdIdx(c, p, MaxOf(ProdEarlier(c, p, y)))))

IsCreditNotesProduct(p) == Lower(p) = "credit notes"

OriginalColumns == {"metric", "customer", "product", "year", "value"}

\* The precedence table of the reconciler as the specification words it (section 4.4).
PrecedenceTable(c, p) ==
  IF p = "Credit Notes" THEN "Credit Notes"
  ELSE IF c = "New" THEN "New"
  ELSE IF c = "Reactivated" THEN "Reactivated"
  ELSE IF c = "Deactivated" THEN "Deactivated"
  ELSE IF c = "Lost" THEN "Lost"
  ELSE IF c \in {"Recurring", "Upsell", "Downsell"} /\ p = "New" THEN "xSell"
  ELSE IF c \in {"Recurring", "Upsell", "Downsell"} /\ p = "Lost" THEN "xLoss"
  ELSE IF p = "Upsell" THEN "Upsell"
  ELSE IF p = "Downsell" THEN "Downsell"
  ELSE IF p = "Recurring" THEN "Recurring"
  ELSE IF c = "Credit Notes" /\ p = "New" THEN "New"
  ELSE "N/A"

(***************************************************************************)
(* Claims                                                                  *)
(***************************************************************************)

\* C1: for every pair of a customer-level and a product-level label, the final
\* label is that of the first matching rule of the 12-rule precedence table,
\* default N/A; in particular (Credit Notes, New) gives New.
C1_FinalFollowsPrecedenceTable ==
  (pc = "done" /\ arg.kind = "reconcile" /\ arg.cust \in CustLabels /\ arg.prod \in ProdLabels)
    => ret = PrecedenceTable(arg.cust, arg.prod)

\* C2: a row whose product-level label is Credit Notes gets the final label
\* Credit Notes, whatever its customer-level label.
C2_CreditNoteOverride ==
  (pc = "done" /\ arg.kind = "reconcile" /\ arg.prod = "Credit Notes")
    => ret = "Credit Notes"

C2_Witness ==
  pc = "done" /\ arg.kind = "reconcile" /\ arg.prod = "Credit Notes"
  /\ arg.cust = "New" /\ ret = "Credit Notes"

\* C3 as stated: after tagging, every input row carries one customer-level label
\* of the customer-level set and one final label of the final set, never a
\* missing one.
C3_EveryRowLabelledAtBothLevels ==
  pc = "done" =>
    /\ Len(out) = Len(data)
    /\ \A i \in DOMAIN out :
         /\ out[i].cust_status_annual \in CustLabels
         /\ out[i].custprod_status_annual \in FinalLabels

\* C3 amended: every input row carries one final label of the final set; it
\* carries one customer-level label of the customer-level set when its
\* (customer, year) has an ARR aggregate, and a missing one otherwise.
C3_LabelledWhereAggregated ==
  pc = "done" =>
    /\ Len(out) = Len(data)
    /\ \A i \in DOMAIN out :
         /\ out[i].custprod_status_annual \in FinalLabels
         /\ CustObserved(data[i].customer, data[i].year)
              => out[i].cust_status_annual \in CustLabels
         /\ ~CustObserved(data[i].customer, data[i].year)
              => out[i].cust_status_annual = NullLabel

C3_Witness ==
  /\ pc = "done"
  /\ \E i, j \in DOMAIN out :
       /\ out[i].cust_status_annual = NullLabel
       /\ out[i].custprod_status_annual = "N/A"
       /\ out[j].cust_status_annual = "N/A"

\* C4: a row with a null prior value whose product, if present, is not the
\* credit-notes product is labelled New when value > 0, N/A when value = 0 and
\* Credit Notes when value < 0.
C4_NullPriorHandling ==
  (pc = "done" /\ arg.kind = "classify" /\ arg.prior = NaN
     /\ (arg.hasProduct => ~IsCreditNotesProduct(arg.product)))
    => ret = (IF arg.value > 0 THEN "New"
              ELSE IF arg.value = 0 THEN "N/A" ELSE "Credit Notes")

C4_Witness ==
  pc = "done" /\ arg.kind = "classify" /\ arg.prior = NaN /\ arg.hasProduct
  /\ arg.product = "P1" /\ arg.value > 0 /\ ret = "New"

\* C5: at both grains every observed key and period has one aggregated row; its
\* value is the sum of the key's ARR facts of that period, and its prior value
\* is the aggregate of the same key in the greatest earlier observed period,
\* null exactly when the key has no earlier observed period.
C5_PriorIsNearestEarlierObserved ==
  pc = "done" =>
    /\ \A i \in DOMAIN cust_rev_by_yr :
         LET r == cust_rev_by_yr[i] IN
           /\ CustObserved(r.customer, r.year)
           /\ r.value = SumIdx(CustIdx(r.customer, r.year))
           /\ r.prior_yr_value = ExpectedCustPrior(r.customer, r.year)
    /\ \A i \in DOMAIN custprod_rev_by_yr :
         LET r == custprod_rev_by_yr[i] IN
           /\ ProdObserved(r.customer, r.product, r.year)
           /\ r.value = SumIdx(ProdIdx(r.customer, r.product, r.year))
           /\ r.prior_yr_value = ExpectedProdPrior(r.customer, r.product, r.year)
    /\ \A i \in ArrIdx :
         /\ \E j \in DOMAIN cust_rev_by_yr :
              /\ cust_rev_by_yr[j].customer = data[i].customer
              /\ cust_rev_by_yr[j].year = data[i].year
         /\ \E j \in DOMAIN custprod_rev_by_yr :
              /\ custprod_rev_by_yr[j].customer = data[i].customer
              /\ custprod_rev_by_yr[j].product = data[i].product
              /\ custprod_rev_by_yr[j].year = data[i].year

\* A key seen in two periods with a gap between them, next to another key.
C5_Witness ==
  /\ pc = "done"
  /\ Len(custprod_rev_by_yr) = 3
  /\ \E i \in DOMAIN custprod_rev_by_yr :
       LET r == custprod_rev_by_yr[i] IN
         /\ ProdObserved(r.customer, r.product, r.year - 2)
         /\ ~ProdObserved(r.customer, r.product, r.year - 1)
         /\ ~r.prior_yr_value.na
         /\ \E j \in DOMAIN cust_rev_by_yr :
              /\ cust_rev_by_yr[j].customer = r.customer
              /\ cust_rev_by_yr[j].year = r.year
              /\ ~CustObserved(r.customer, r.year - 1)
              /\ ~cust_rev_by_yr[j].prior_yr_value.na
  /\ \E i \in DOMAIN cust_rev_by_yr : i > 1 /\ cust_rev_by_yr[i].prior_yr_value.na

\* C6: every aggregated row with value 0 and a prior value above 0 (its
\* product, if present, not the credit-notes product) is labelled Lost, at the
\* customer level and at the product level.
C6_ZeroAfterPositiveIsLost ==
  pc = "done" =>
    /\ \A i \in DOMAIN cust_rev_by_yr :
         LET r == cust_rev_by_yr[i] IN
           (r.value = 0 /\ PGt0(r.prior_yr_value)) => r.cust_status_annual = "Lost"
    /\ \A i \in DOMAIN custprod_rev_by_yr :
         LET r == custprod_rev_by_yr[i] IN
           (r.value = 0 /\ PGt0(r.prior_yr_value) /\ ~IsCreditNotesProduct(r.product))
             => r.custprod_status_annual_temp = "Lost"

\* C7: when a customer has an earlier observed period and a product other than
\* the credit-notes product is first observed for that customer with a positive
\* value in a later period, every row of that (customer, product, period) gets
\* the final label xSell.
C7_NewProductOfKnownCustomerIsXSell ==
  pc = "done" =>
    \A i \in DOMAIN out :
      LET r == out[i] IN
        ( /\ ~IsCreditNotesProduct(r.product)
          /\ CustEarlier(r.customer, r.year) # {}
          /\ ProdObserved(r.customer, r.product, r.year)
          /\ ProdEarlier(r.customer, r.product, r.year) = {}
          /\ SumIdx(ProdIdx(r.customer, r.product, r.year)) > 0 )
        => r.custprod_status_annual = "xSell"

\* C8: the output has the rows of the input, in order, with their original
\* columns unchanged, also where no ARR aggregate exists; rows sharing
\* (customer, product, period) share the final label and rows sharing
\* (customer, period) share the customer-level label.
C8_JoinBackPreservesRows ==
  pc = "done" =>
    /\ Len(out) = Len(data)
    /\ \A i \in DOMAIN out :
         /\ DOMAIN out[i] = OriginalColumns \cup {"cust_status_annual", "custprod_status_annual"}
         /\ \A c \in OriginalColumns : out[i][c] = data[i][c]
    /\ \A i, j \in DOMAIN out :
         /\ SameKey(out[i], out[j], <<"customer", "year">>)
              => out[i].cust_status_annual = out[j].cust_status_annual
         /\ SameKey(out[i], out[j], <<"customer", "product", "year">>)
              => out[i].custprod_status_annual = out[j].custprod_status_annual

C8_Witness ==
  /\ pc = "done"
  /\ Len(out) = 3
  /\ \E i, j, k \in DOMAIN out :
       /\ i # j
       /\ SameKey(out[i], out[j], <<"customer", "product", "year">>)
       /\ out[i].metric # out[j].metric
       /\ out[i].custprod_status_annual = "New"
       /\ out[j].custprod_status_annual = "New"
       /\ ~CustObserved(out[k].customer, out[k].year)
       /\ out[k].cust_status_annual = NullLabel

\* C9: when all ARR facts of a customer belong to one product other than the
\* credit-notes product, then in every period the customer-level label, the
\* product-level label and the final label are the same.
SingleProduct(c, p) ==
  /\ ~IsCreditNotesProduct(p)
  /\ \E i \in ArrIdx : data[i].customer = c
  /\ \A i \in ArrIdx : data[i].customer = c => data[i].product = p

C9_SingleProductLevelsAgree ==
  pc = "done" =>
    \A c \in Customers, p \in Products :
      SingleProduct(c, p) =>
        /\ \A i \in DOMAIN tagged :
             (tagged[i].customer = c /\ tagged[i].product = p
                /\ CustObserved(c, tagged[i].year))
             => /\ tagged[i].cust_status_annual # NullLabel
                /\ tagged[i].custprod_status_annual_temp = tagged[i].cust_status_annual
                /\ tagged[i].custprod_status_annual = tagged[i].cust_status_annual
        /\ \A i \in DOMAIN cust_rev_by_yr :
             cust_rev_by_yr[i].customer = c =>
               \E j \in DOMAIN custprod_rev_by_yr :
                 /\ custprod_rev_by_yr[j].customer = c
                 /\ custprod_rev_by_yr[j].product = p
                 /\ custprod_rev_by_yr[j].year = cust_rev_by_yr[i].year
                 /\ custprod_rev_by_yr[j].custprod_status_annual_temp
                      = cust_rev_by_yr[i].cust_status_annual

C9_Witness ==
  /\ pc = "done"
  /\ \E c \in Customers, p \in Products :
       /\ SingleProduct(c, p)
       /\ \E i, j \in DOMAIN tagged :
            /\ tagged[i].customer = c /\ tagged[i].product = p
            /\ tagged[i].cust_status_annual = "New"
            /\ tagged[i].custprod_status_annual_temp = "New"
            /\ tagged[i].custprod_status_annual = "New"
            /\ tagged[j].customer = c /\ tagged[j].product = p
            /\ tagged[j].cust_status_annual = "Upsell"
            /\ tagged[j].custprod_status_annual_temp = "Upsell"
            /\ tagged[j].custprod_status_annual = "Upsell"

====
